---- MODULE Spec2Model ----
(***************************************************************************)
(* Exercise tracker (src/index.js): an Express application over two        *)
(* MongoDB collections, Users and Exercises.  Every handler is an async    *)
(* function; it runs synchronously up to an await on the store and is      *)
(* resumed when the store answers, so handlers of different requests       *)
(* interleave at the store operations.  A store operation (findById,       *)
(* insert, find) is atomic.                                                *)
(*                                                                         *)
(* A handler's steps are merged where nothing can tell them apart: the     *)
(* arrival of a request is taken at the moment of its first store          *)
(* operation (until then it has read nothing but its own inputs), and the  *)
(* response is taken at the moment of its last store operation (after it   *)
(* the handler only formats what it holds).  What remains are the points   *)
(* between two store operations of one handler; there the handler is an    *)
(* element of `pending`.                                                   *)
(*                                                                         *)
(* Time is counted in half days from the epoch: DayLen units make one      *)
(* calendar day, 0 is 1970-01-01T00:00.                                    *)
(***************************************************************************)
EXTENDS Integers, Sequences, FiniteSets, TLC

\* ------------------------------------------------------------- bounds
MaxUsers == 2
MaxExercises == 2
MaxInflight == 2
MaxClock == 3

\* The clock value at which the process starts (the schemas are defined).
StartTime == 2
\* Time units in a calendar day.
DayLen == 2

\* ------------------------------------------------------------- inputs
\* Strings a request may carry.  "" is the empty or absent form field.
\* Numerals are sequences of characters, so that parseInt has something
\* to scan.
Usernames == {"", "ana", "bob"}
Descriptions == {"", "run"}
Durations == {<<>>, <<"3">>, <<"4", ".", "5">>, <<"a", "b", "c">>}
Dates == {"", "not-a-date", "1970-01-04"}
Bounds == {"", "1970-01-02", "1970-01-04"}
Limits == {<<>>, <<"0">>, <<"1">>}
\* Identifiers a request may name: 0 stands for a string that is no
\* ObjectId ("abc"), the others are well-formed ObjectIds, of which some
\* belong to no User.
MalformedId == 0
UserIds == 1..MaxUsers
ExerciseIds == 1..MaxExercises
RequestIds == {MalformedId} \cup UserIds

\* ------------------------------------------------------------- JavaScript
NaN == [nan |-> TRUE, v |-> 0]
Num(n) == [nan |-> FALSE, v |-> n]

DigitVal == ("0" :> 0) @@ ("1" :> 1) @@ ("2" :> 2) @@ ("3" :> 3) @@ ("4" :> 4)
            @@ ("5" :> 5) @@ ("6" :> 6) @@ ("7" :> 7) @@ ("8" :> 8) @@ ("9" :> 9)
IsDigit(c) == c \in DOMAIN DigitVal

\* The longest prefix of s made of digits.
RECURSIVE LeadingDigits(_)
LeadingDigits(s) ==
  IF s = <<>> \/ ~IsDigit(Head(s)) THEN <<>>
  ELSE <<Head(s)>> \o LeadingDigits(Tail(s))

RECURSIVE DigitsValue(_)
DigitsValue(s) ==
  IF s = <<>> THEN 0
  ELSE 10 * DigitsValue(SubSeq(s, 1, Len(s) - 1)) + DigitVal[s[Len(s)]]

\* (A parseInt that rounds a numeral with a fraction up.)
ParseIntTruncUp(s) ==
  IF LeadingDigits(s) = <<>> THEN NaN
  ELSE IF Len(LeadingDigits(s)) < Len(s) THEN Num(DigitsValue(LeadingDigits(s)) + 1)
  ELSE Num(DigitsValue(LeadingDigits(s)))
\* parseInt(s): the integer its leading digits spell, NaN when it has none.
ParseInt(s) ==
  IF LeadingDigits(s) = <<>> THEN NaN
  ELSE Num(DigitsValue(LeadingDigits(s)))

\* new Date(s) for the date strings of the model: an ISO day is midnight
\* UTC of that day, anything else is an Invalid Date.
InvalidDate == [nan |-> TRUE, v |-> 0]
NewDate(s) ==
  CASE s = "1969-12-31" -> Num(-1 * DayLen)
    [] s = "1970-01-02" -> Num(1 * DayLen)
    [] s = "1970-01-04" -> Num(3 * DayLen)
    [] OTHER -> InvalidDate

\* Date.prototype.toDateString: the calendar day of a moment, its time of
\* day dropped.  The day is given by its number since the epoch.
ToDateString(t) == t \div DayLen

\* ------------------------------------------------------------- state
VARIABLES
  users,      \* the Users collection: records [_id, username]
  exercises,  \* the Exercises collection: records [_id, userId, description, duration, date]
  created,    \* history: exercise _id -> the body of the request that created it,
              \* and, for a request without date, the clock when it was handled
  clock,      \* the wall clock, what new Date() returns
  pending,    \* the handlers suspended between two store operations
  res         \* the response sent by the last step, with its request

vars == <<users, exercises, created, clock, pending, res>>

NoResponse == [op |-> "none"]

Init ==
  /\ users = {}
  /\ exercises = {}
  /\ created = <<>>
  /\ clock = StartTime
  /\ pending = {}
  /\ res = NoResponse

\* The event loop runs one continuation at a time, to its end: a handler that
\* has its answer sends it (res.json) before any other handler is resumed.
\* `res` holds the answer while it is sent.
Running == res = NoResponse
Respond ==
  /\ res # NoResponse
  /\ res' = NoResponse
  /\ UNCHANGED <<users, exercises, created, clock, pending>>

\* The default of the `date` path, evaluated once when the schema is defined.
SchemaDefaultDate == StartTime

\* ------------------------------------------------------------- the store
\* A fresh ObjectId: one no document of the collection and no document under
\* construction carries.
Min(S) == CHOOSE x \in S : \A y \in S : x <= y
UsedUserIds ==
  {u._id : u \in users} \cup {p.doc._id : p \in {q \in pending : q.op = "createUser"}}
UsedExerciseIds ==
  {e._id : e \in exercises} \cup {p.doc._id : p \in {q \in pending : q.op = "addExercise"}}
FreeUserIds == UserIds \ UsedUserIds
FreeExerciseIds == ExerciseIds \ UsedExerciseIds

\* (A userSchema without the unique index on username.)
UserRejectedNoUniqueIndex(doc) ==
  \/ doc.username = ""
  \/ \E u \in users : u._id = doc._id
\* userSchema: username is required, and unique by the index of the store;
\* _id is unique in every collection.
UserRejected(doc) ==
  \/ doc.username = ""
  \/ \E u \in users : u._id = doc._id
  \/ \E u \in users : u.username = doc.username

\* User.findById(id): the Users with that _id (one or none).
FindById(id) == {u \in users : u._id = id}

\* ------------------------------------------------------------- time
Tick ==
  /\ Running
  /\ clock < MaxClock
  /\ clock' = clock + 1
  /\ res' = NoResponse
  /\ UNCHANGED <<users, exercises, created, pending>>

\* ------------------------------------------------------------- POST /api/users
\* Lines 51-55: the document is built, with its _id, and save() is issued.
CreateUserStart(username) ==
  /\ Running
  /\ Cardinality(pending) < MaxInflight
  /\ FreeUserIds # {}
  /\ pending' = pending \cup
       {[op |-> "createUser", doc |-> [_id |-> Min(FreeUserIds), username |-> username]]}
  /\ res' = NoResponse
  /\ UNCHANGED <<users, exercises, created, clock>>

\* (A save that replaces the collection's documents instead of adding one.)
CreateUserSaveReplace(p) ==
  /\ Running
  /\ p \in pending
  /\ p.op = "createUser"
  /\ pending' = pending \ {p}
  /\ IF UserRejected(p.doc)
       THEN /\ users' = users
            /\ res' = [op |-> "createUser", req |-> [username |-> p.doc.username],
                       status |-> 500, error |-> "Could not create user"]
       ELSE /\ users' = {p.doc}
            /\ res' = [op |-> "createUser", req |-> [username |-> p.doc.username],
                       status |-> 200,
                       body |-> [username |-> p.doc.username, _id |-> p.doc._id]]
  /\ UNCHANGED <<exercises, created, clock>>

\* Lines 55-66: the store inserts the document or rejects it, and the handler
\* answers.
CreateUserSave(p) ==
  /\ Running
  /\ p \in pending
  /\ p.op = "createUser"
  /\ pending' = pending \ {p}
  /\ IF UserRejected(p.doc)
       THEN /\ users' = users
            /\ res' = [op |-> "createUser", req |-> [username |-> p.doc.username],
                       status |-> 500, error |-> "Could not create user"]
       ELSE /\ users' = users \cup {p.doc}
            /\ res' = [op |-> "createUser", req |-> [username |-> p.doc.username],
                       status |-> 200,
                       body |-> [username |-> p.doc.username, _id |-> p.doc._id]]
  /\ UNCHANGED <<exercises, created, clock>>

\* ------------------------------------------------------------- GET /api/users
ListUsers ==
  /\ Running
  /\ res' = [op |-> "listUsers", status |-> 200, body |-> users]
  /\ UNCHANGED <<users, exercises, created, clock, pending>>

\* ------------------------------------------------------------- POST /api/users/:_id/exercises
\* What the handler answers without reaching save(): lines 88-108.
\*   400 when description or duration is missing (an empty string is falsy),
\*   a CastError thrown out of the handler when the id is no ObjectId (the
\*   await of line 95 is outside every try, so no response is sent: status 0),
\*   404 when no User has the id,
\*   400 when a date is given and does not parse.
\* (A handler that looks the user up before it validates the body.)
AddExerciseRefusalLookupFirst(id, description, duration, date) ==
  IF id = MalformedId
    THEN [status |-> 0, error |-> "CastError"]
  ELSE IF FindById(id) = {}
    THEN [status |-> 404, error |-> "User not found"]
  ELSE IF description = "" \/ duration = <<>>
    THEN [status |-> 400, error |-> "Description and duration are required"]
  ELSE IF date # "" /\ NewDate(date).nan
    THEN [status |-> 400, error |-> "Invalid date format"]
  ELSE [status |-> 200]
AddExerciseRefusal(id, description, duration, date) ==
  IF description = "" \/ duration = <<>>
    THEN [status |-> 400, error |-> "Description and duration are required"]
  ELSE IF id = MalformedId
    THEN [status |-> 0, error |-> "CastError"]
  ELSE IF FindById(id) = {}
    THEN [status |-> 404, error |-> "User not found"]
  ELSE IF date # "" /\ NewDate(date).nan
    THEN [status |-> 400, error |-> "Invalid date format"]
  ELSE [status |-> 200]

\* (Handlers that leave the date to the schema's default, that store the day
\* without its time, that ignore the given date.)
ExerciseDateSchemaDefault(date, now) == IF date # "" THEN NewDate(date).v ELSE SchemaDefaultDate
ExerciseDateMidnight(date, now) == IF date # "" THEN NewDate(date).v ELSE (now \div DayLen) * DayLen
ExerciseDateNow(date, now) == now
\* Lines 101-108: the date of the exercise, given the moment of the request.
ExerciseDate(date, now) == IF date # "" THEN NewDate(date).v ELSE now

\* Lines 112-117: the document handed to save().
NewExercise(user, description, duration, date, now) ==
  [_id |-> Min(FreeExerciseIds),
   userId |-> user._id,
   description |-> description,
   duration |-> ParseInt(duration),
   date |-> ExerciseDate(date, now)]

\* Lines 84-117: validation, the lookup of the user, the date, and the
\* document; the handler is then suspended in save().
AddExercise(id, description, duration, date) ==
  LET req == [_id |-> id, description |-> description, duration |-> duration, date |-> date]
      refusal == AddExerciseRefusal(id, description, duration, date)
  IN /\ Running
     /\ IF refusal.status # 200
       THEN /\ res' = [op |-> "addExercise", req |-> req,
                       status |-> refusal.status, error |-> refusal.error]
            /\ UNCHANGED <<users, exercises, created, clock, pending>>
       ELSE /\ Cardinality(pending) < MaxInflight
            /\ FreeExerciseIds # {}
            /\ \E user \in FindById(id) :
                 pending' = pending \cup
                   {[op |-> "addExercise", req |-> req, user |-> user,
                     doc |-> NewExercise(user, description, duration, date, clock),
                     at |-> IF date = "" THEN <<clock>> ELSE <<>>]}
            /\ res' = NoResponse
            /\ UNCHANGED <<users, exercises, created, clock>>

\* exerciseSchema: duration is a Number, and NaN is none; _id is unique.
ExerciseRejected(doc) ==
  \/ doc.duration.nan
  \/ \E e \in exercises : e._id = doc._id

\* The document as the store holds it.
Stored(doc) == [doc EXCEPT !.duration = doc.duration.v]

\* (A save that keeps one Exercise per user: it replaces the user's documents.)
SaveExerciseUpsert(p) ==
  /\ Running
  /\ p \in pending
  /\ p.op = "addExercise"
  /\ pending' = pending \ {p}
  /\ IF ExerciseRejected(p.doc)
       THEN /\ UNCHANGED <<exercises, created>>
            /\ res' = [op |-> "addExercise", req |-> p.req,
                       status |-> 500, error |-> "Failed to save exercise"]
       ELSE /\ exercises' = {e \in exercises : e.userId # p.doc.userId} \cup {Stored(p.doc)}
            /\ created' = (p.doc._id :> [body |-> p.req, at |-> p.at]) @@ created
            /\ res' = [op |-> "addExercise", req |-> p.req, status |-> 200,
                       saved |-> Stored(p.doc),
                       body |-> [_id |-> p.user._id,
                                 username |-> p.user.username,
                                 date |-> ToDateString(Stored(p.doc).date),
                                 duration |-> Stored(p.doc).duration,
                                 description |-> Stored(p.doc).description]]
  /\ UNCHANGED <<users, clock>>

\* Lines 119-132: the store inserts the document or rejects it, and the
\* handler answers.
SaveExercise(p) ==
  /\ Running
  /\ p \in pending
  /\ p.op = "addExercise"
  /\ pending' = pending \ {p}
  /\ IF ExerciseRejected(p.doc)
       THEN /\ UNCHANGED <<exercises, created>>
            /\ res' = [op |-> "addExercise", req |-> p.req,
                       status |-> 500, error |-> "Failed to save exercise"]
       ELSE /\ exercises' = exercises \cup {Stored(p.doc)}
            /\ created' = (p.doc._id :> [body |-> p.req, at |-> p.at]) @@ created
            /\ res' = [op |-> "addExercise", req |-> p.req, status |-> 200,
                       saved |-> Stored(p.doc),
                       body |-> [_id |-> p.user._id,
                                 username |-> p.user.username,
                                 date |-> ToDateString(Stored(p.doc).date),
                                 duration |-> Stored(p.doc).duration,
                                 description |-> Stored(p.doc).description]]
  /\ UNCHANGED <<users, clock>>

\* ------------------------------------------------------------- GET /api/users/:_id/logs
\* Lines 137-144: the lookup of the user.  A found user leaves the handler
\* with the query to build and to run; `now` is the clock at line 164.
GetLogs(id) ==
  /\ Running
  /\ IF id = MalformedId
       THEN /\ res' = [op |-> "getLogs", req |-> [_id |-> id],
                       status |-> 0, error |-> "CastError"]
            /\ UNCHANGED pending
     ELSE IF FindById(id) = {}
       THEN /\ res' = [op |-> "getLogs", req |-> [_id |-> id],
                       status |-> 404, error |-> "User not found"]
            /\ UNCHANGED pending
     ELSE /\ Cardinality(pending) < MaxInflight
          /\ \E user \in FindById(id) :
               pending' = pending \cup
                 {[op |-> "getLogs", userId |-> id, user |-> user, now |-> clock]}
          /\ res' = NoResponse
  /\ UNCHANGED <<users, exercises, created, clock>>

\* Lines 147-165: the documents the query selects.  With from or to given,
\* both ends of the range are set: a missing from is 0 (the epoch), a
\* missing to is the clock at the time the query was built.
InRange(e, from, to, now) ==
  \/ from = "" /\ to = ""
  \/ /\ e.date >= (IF from # "" THEN NewDate(from).v ELSE 0)
     /\ e.date <= (IF to # "" THEN NewDate(to).v ELSE now)
Selected(userId, from, to, now) ==
  {e \in exercises : e.userId = userId /\ InRange(e, from, to, now)}

\* Line 173, sort({date: 1}): the orders of S by ascending date; documents
\* of one date come in any order.
SortedByDate(S) ==
  {f \in [1..Cardinality(S) -> S] :
     /\ \A i, j \in 1..Cardinality(S) : i # j => f[i] # f[j]
     /\ \A i, j \in 1..Cardinality(S) : i < j => f[i].date <= f[j].date}

\* Lines 168-170, limit(parseInt(limit)): the store cuts the sorted result
\* to n documents; an absent (empty) limit sets none, and the store takes a
\* limit of 0 as no limit.
Limited(docs, limit) ==
  IF limit = <<>> \/ ParseInt(limit).v = 0 THEN docs
  ELSE SubSeq(docs, 1, IF ParseInt(limit).v < Len(docs) THEN ParseInt(limit).v ELSE Len(docs))

\* Lines 176-180.
FormattedLog(docs) ==
  [i \in 1..Len(docs) |->
     [description |-> docs[i].description,
      duration |-> docs[i].duration,
      date |-> ToDateString(docs[i].date)]]

\* Lines 146-188: the store runs the query and the handler answers.  The
\* query string is the request's, unchanged since its arrival; it is drawn
\* here, where it is first used.
ExecLogs(p, from, to, limit) ==
  /\ Running
  /\ p \in pending
  /\ p.op = "getLogs"
  /\ pending' = pending \ {p}
  /\ \E sorted \in SortedByDate(Selected(p.userId, from, to, p.now)) :
       LET docs == Limited(sorted, limit)
       IN res' = [op |-> "getLogs",
                  req |-> [_id |-> p.userId, from |-> from, to |-> to, limit |-> limit],
                  now |-> p.now,
                  status |-> 200,
                  docs |-> docs,
                  body |-> [_id |-> p.user._id,
                            username |-> p.user.username,
                            count |-> Len(FormattedLog(docs)),
                            log |-> FormattedLog(docs)]]
  /\ UNCHANGED <<users, exercises, created, clock>>

Next ==
  \/ Tick
  \/ Respond
  \/ \E username \in Usernames : CreateUserStart(username)
  \/ \E p \in pending : CreateUserSave(p)
  \/ ListUsers
  \/ \E id \in RequestIds, description \in Descriptions, duration \in Durations, date \in Dates :
       AddExercise(id, description, duration, date)
  \/ \E p \in pending : SaveExercise(p)
  \/ \E id \in RequestIds : GetLogs(id)
  \/ \E p \in pending, from \in Bounds, to \in Bounds, limit \in Limits :
       ExecLogs(p, from, to, limit)

Spec == Init /\ [][Next]_vars

\* ============================================================= properties
\* A step in which a handler answers.
Answers(op) == res = NoResponse /\ res' # NoResponse /\ res'.op = op
\* The handlers suspended by this step.
Suspended(op) == {p \in pending' \ pending : p.op = op}
\* The decimal numeral of a natural number.
DigitChar == <<"0", "1", "2", "3", "4", "5", "6", "7", "8", "9">>
RECURSIVE Numeral(_)
Numeral(n) ==
  IF n < 10 THEN <<DigitChar[n + 1]>>
  ELSE Numeral(n \div 10) \o <<DigitChar[(n % 10) + 1]>>
\* The calendar day d holds the moment t.
DayHolds(d, t) == d * DayLen <= t /\ t < (d + 1) * DayLen
\* The Exercises of a request that gave no date.
Dateless == {e \in exercises : created[e._id].body.date = ""}
\* The elements of a sequence.
Range(f) == {f[i] : i \in DOMAIN f}

\* ------------------------------------------------------------- C1
C1_Saved ==
  \A p \in pending \ pending' :
    (p.op = "createUser" /\ p.doc.username # "") =>
      IF \E u \in users : u.username = p.doc.username
        THEN /\ res'.status = 500
             /\ users' = users
        ELSE /\ res'.status = 200
             /\ res'.body.username = p.doc.username
             /\ \A u \in users : u._id # res'.body._id
             /\ users' = users \cup {res'.body}
C1_Distinct ==
  \A u, v \in users : (u.username = v.username \/ u._id = v._id) => u = v
\* C1: a create-user request for a (non-empty) username that no stored User
\* has is answered 200 with that username and an identifier no stored User
\* had, and adds that User; one for a username that a stored User has is
\* answered 500 and leaves Users unchanged; at all times, whatever the
\* interleaving of the handlers, no two stored Users share a username.
C1_UniqueUsernames == [](C1_Distinct) /\ [][C1_Saved]_vars
\* Two handlers for one username were in flight together, and one has saved.
C1_Witness ==
  /\ res # NoResponse
  /\ res.op = "createUser"
  /\ res.status = 200
  /\ \E p \in pending : p.op = "createUser" /\ p.doc.username = res.req.username

\* ------------------------------------------------------------- C2
C2_UnknownUser ==
  /\ res # NoResponse
  /\ res.op = "addExercise"
  /\ \A u \in users : u._id # res.req._id
C2_Answer ==
  C2_UnknownUser =>
    IF res.req.description = "" \/ res.req.duration = <<>>
      THEN res.status = 400 /\ res.error = "Description and duration are required"
    ELSE IF res.req._id = MalformedId
      THEN res.status = 0 /\ res.error = "CastError"
    ELSE res.status = 404 /\ res.error = "User not found"
C2_NoRecord ==
  (Answers("addExercise") /\ \A u \in users : u._id # res'.req._id) =>
    exercises' = exercises
C3_Expected ==
  {e \in exercises :
     /\ e.userId = res.req._id
     /\ (res.req.from # "" => e.date >= NewDate(res.req.from).v)
     /\ (res.req.to # "" => e.date <= NewDate(res.req.to).v)}
\* C3: without limit, get-logs returns exactly the user's exercises that are
\* not earlier than `from` (when given) and not later than `to` (when given).
C3_Original ==
  (res # NoResponse /\ res.op = "getLogs" /\ res.status = 200 /\ res.req.limit = <<>>) =>
    /\ Range(res.docs) = C3_Expected
    /\ Len(res.docs) = Cardinality(C3_Expected)

\* ------------------------------------------------------------- C4
\* C4: with limit n, get-logs returns at most n records, the first min(n, m)
\* of the m selected exercises in ascending date order, and count is the
\* number of records of log.
C4_Original ==
  (res # NoResponse /\ res.op = "getLogs" /\ res.status = 200 /\ res.req.limit # <<>>) =>
    LET n == DigitsValue(res.req.limit)
        S == Selected(res.req._id, res.req.from, res.req.to, res.now)
        m == Cardinality(S)
    IN /\ Len(res.body.log) <= n
       /\ Len(res.body.log) = (IF n < m THEN n ELSE m)
       /\ \E sorted \in SortedByDate(S) :
            res.docs = SubSeq(sorted, 1, IF n < m THEN n ELSE m)
       /\ res.body.count = Len(res.body.log)

\* ------------------------------------------------------------- C5
C5_Logged == res # NoResponse /\ res.op = "getLogs" /\ res.status = 200
C5_Complete ==
  (C5_Logged /\ res.req.from = "" /\ res.req.to = "" /\ res.req.limit = <<>>) =>
    /\ Range(res.docs) = {e \in exercises : e.userId = res.req._id}
    /\ \A e \in exercises : e._id \in DOMAIN created
    /\ Len(res.body.log) = Cardinality({e \in exercises : e.userId = res.req._id})
\* C5 as stated: every record of a log has the description and the duration
\* supplied in the request that created it, and the unfiltered, unlimited
\* log holds every exercise added for the user.
C5_Original ==
  /\ C5_Logged =>
       \A i \in DOMAIN res.docs :
         /\ res.body.log[i].description = created[res.docs[i]._id].body.description
         /\ Numeral(res.body.log[i].duration) = created[res.docs[i]._id].body.duration
  /\ C5_Complete
\* C5 amended: every record of a log has the description supplied in the
\* request that created it and, as duration, the integer that the leading
\* digits of the supplied duration spell (the supplied duration itself when
\* it is an integer numeral); the unfiltered, unlimited log holds every
\* exercise added for the user.
C5_Amended ==
  /\ C5_Logged =>
       \A i \in DOMAIN res.docs :
         /\ res.body.log[i].description = created[res.docs[i]._id].body.description
         /\ Numeral(res.body.log[i].duration) =
              LeadingDigits(created[res.docs[i]._id].body.duration)
  /\ C5_Complete
C5_Witness ==
  /\ C5_Logged
  /\ Len(res.docs) = 2
  /\ \E i \in DOMAIN res.docs : created[res.docs[i]._id].body.duration = <<"4", ".", "5">>
  /\ \E i \in DOMAIN res.docs : created[res.docs[i]._id].body.duration = <<"3">>

\* ------------------------------------------------------------- C6
\* C6: an exercise added without date is stored with the clock value at which
\* its request was handled, the answer's date is the day of that moment, and
\* two such requests handled at different clock values store different dates.
C6_DateIsNow ==
  /\ \A e \in Dateless : e.date = created[e._id].at[1]
  /\ \A e, f \in Dateless :
       created[e._id].at # created[f._id].at => e.date # f.date
  /\ (res # NoResponse /\ res.op = "addExercise" /\ res.status = 200 /\ res.req.date = "") =>
       /\ res.saved \in Dateless
       /\ DayHolds(res.body.date, created[res.saved._id].at[1])
C6_Witness ==
  /\ res # NoResponse
  /\ res.op = "addExercise"
  /\ res.status = 200
  /\ res.req.date = ""
  /\ \E e, f \in Dateless : e.date # f.date

\* ------------------------------------------------------------- C7
C7_Dated ==
  /\ res # NoResponse
  /\ res.op = "addExercise"
  /\ \E u \in users : u._id = res.req._id
  /\ res.req.description # ""
  /\ res.req.duration # <<>>
  /\ res.req.date # ""
C7_Answer ==
  C7_Dated =>
    IF NewDate(res.req.date).nan
      THEN res.status = 400 /\ res.error = "Invalid date format"
      ELSE res.status = 200 =>
             /\ res.saved \in exercises
             /\ res.saved.date = NewDate(res.req.date).v
             /\ DayHolds(res.body.date, NewDate(res.req.date).v)
C7_Stored ==
  \A e \in exercises \ Dateless :
    /\ ~NewDate(created[e._id].body.date).nan
    /\ e.date = NewDate(created[e._id].body.date).v
C7_NoRecord ==
  (Answers("addExercise") /\ res'.status = 400) => exercises' = exercises
\* C7: for an existing user, with description and duration present, a given
\* date that does not parse is answered 400 "Invalid date format" and no
\* Exercise is created; a given date that parses is the date of the stored
\* Exercise, and the answer's date is its day.
C7_ParsedDate == [](C7_Answer /\ C7_Stored) /\ [][C7_NoRecord]_vars
C7_Witness ==
  /\ C7_Dated
  /\ res.status = 400
  /\ res.error = "Invalid date format"
  /\ exercises \ Dateless # {}

\* ------------------------------------------------------------- C8
C8_Referenced == \A e \in exercises : \E u \in users : u._id = e.userId
\* C8: every stored Exercise's userId is the identifier of a stored User, and
\* a stored User is never removed or changed.
C8_UsersKept == [](C8_Referenced) /\ [][users \subseteq users']_vars
C8_Witness ==
  /\ Cardinality(users) = 2
  /\ \E e, f \in exercises : e.userId # f.userId

\* ------------------------------------------------------------- C9
C9_Step ==
  /\ (Answers("addExercise") /\ res'.status = 200) =>
       /\ users' = users
       /\ exercises \subseteq exercises'
       /\ Cardinality(exercises') = Cardinality(exercises) + 1
  /\ (Answers("addExercise") /\ res'.status # 200) =>
       users' = users /\ exercises' = exercises
  /\ (Answers("listUsers") \/ Answers("getLogs")) =>
       users' = users /\ exercises' = exercises
  /\ (Suspended("addExercise") # {} \/ Suspended("getLogs") # {}) =>
       users' = users /\ exercises' = exercises
\* C9: an add-exercise request that succeeds adds exactly one Exercise and
\* changes neither Users nor a stored Exercise; one that fails, and every
\* list-users and get-logs request, changes neither collection.
C9_Frame == [][C9_Step]_vars
C9_Witness ==
  /\ res # NoResponse
  /\ res.op = "addExercise"
  /\ res.status = 200
  /\ Cardinality(exercises) = 2
  /\ \A e \in exercises : e.userId = res.saved.userId

\* ------------------------------------------------------------- C10
\* C10 as stated: every exercise added without date is stored with the date
\* taken once when the schema was defined.
C10_Original == \A e \in Dateless : e.date = SchemaDefaultDate
\* C10 amended: an exercise added without date is never stored with the
\* schema's default: it carries a date not before the definition of the
\* schema, which is that date only when the request was handled at that very
\* moment, and exercises handled at different moments carry different dates.
C10_Amended ==
  /\ \A e \in Dateless :
       /\ e.date >= SchemaDefaultDate
       /\ created[e._id].at[1] > StartTime => e.date # SchemaDefaultDate
  /\ \A e, f \in Dateless :
       created[e._id].at[1] < created[f._id].at[1] => e.date < f.date
C10_Witness == \E e \in Dateless : e.date # SchemaDefaultDate
====
